---- MODULE Spec2Model ----
(***************************************************************************)
(* Authentication / session core of takteeki-backend.                      *)
(*                                                                         *)
(* State: the users table (credential store), the refresh_tokens table     *)
(* (session store), the wall clock, and the request handlers in flight.    *)
(* Every storage call of a handler is one step, so that requests served    *)
(* concurrently interleave at their awaits exactly as in the service.      *)
(* Access tokens are stateless JWTs: the bearer tokens that requests       *)
(* present are the ones signed together with the sessions on record.       *)
(* Each request answered leaves its response in last until the next step.  *)
(***************************************************************************)
EXTENDS Integers, FiniteSets, Sequences, Bags, TLC

\* ---------------------------------------------------------------- bounds

MaxTokens == 2     \* refresh tokens ever generated
MaxTime   == 2     \* last clock tick

\* JWT_EXPIRES_IN / JWT_REFRESH_EXPIRES_IN, scaled to clock ticks
AccessTTL  == 1
RefreshTTL == 1

Procs == {"p1", "p2"}     \* connections served at the same time

\* ---------------------------------------------------------------- inputs

RawEmails   == {"a@x.com", "A@x.com", "b@x.com"}
Passwords   == {"pw1", "pw2"}         \* what a login may send
NewPasswords == {"pw1"}               \* what a registration sends
UserRole    == {"user", "admin", "moderator"}
RoleInputs  == {"", "admin"}          \* RegisterDto.role is optional ("": absent)
SECRET      == "jwt.secret"           \* config.jwt.secret
UnknownToken == 0                     \* a refresh token value never generated

\* a request body without a refreshToken field, or with an empty one
MissingToken == 0 - 1

\* express-validator's normalizeEmail() on the routes: lower-cases the address
NormalizeEmail(e) == IF e = "A@x.com" THEN "a@x.com" ELSE e

\* ---------------------------------------------------------------- values

NoAccess == [userId |-> 0, email |-> "", role |-> "", exp |-> 0, sig |-> ""]
NoUser   == [id |-> 0, email |-> "", password |-> <<>>, role |-> "", isActive |-> FALSE]
NoRow    == [token |-> 0, userId |-> 0, expiresAt |-> 0, isActive |-> FALSE,
             deleted |-> FALSE, signedRole |-> ""]
NoSnap   == [row |-> NoRow, user |-> NoUser]
NoHeader == [kind |-> "absent", tok |-> NoAccess]
NoRes    == [status |-> 0, message |-> "", token |-> NoAccess, refreshToken |-> 0]

\* a handler between two of its awaits: its arguments and locals, and what the
\* store held when it looked its token up (seen, afterLogout), and the number
\* of write statements it has sent to the store (writes)
IdleProc == [op |-> "idle", pc |-> "idle", email |-> "", password |-> "",
             role |-> "", token |-> 0, user |-> NoUser, acc |-> NoAccess,
             exp |-> 0, snap |-> NoSnap, seen |-> NoSnap, afterLogout |-> FALSE,
             writes |-> 0]

\* the response a step sends: the route, the step of its handler that answered,
\* the handler's arguments and lookup, the authorization header and the
\* identity authenticate attached to the request, and the body
NoLast == [op |-> "none", pc |-> "", email |-> "", password |-> "", token |-> 0,
           seen |-> NoSnap, afterLogout |-> FALSE, hdr |-> NoHeader,
           reqUser |-> NoAccess, res |-> NoRes, writes |-> 0]

VARIABLES
    users,      \* the users table
    sessions,   \* the refresh_tokens table
    now,        \* the clock
    nextToken,  \* refresh token values generated so far, plus one
    revoked,    \* refresh tokens a completed logout or logout-all named
    proc,       \* the handlers in flight
    last        \* the response sent by the step just taken

vars == <<users, sessions, now, nextToken, revoked, proc, last>>

\* ---------------------------------------------------------------- errors

\* new AppError(message, statusCode), rendered by errorHandler
AppError(message, statusCode) ==
    [status |-> statusCode, message |-> message, token |-> NoAccess, refreshToken |-> 0]

\* any other Error reaching errorHandler is answered 500
InternalError(message) ==
    [status |-> 500, message |-> message, token |-> NoAccess, refreshToken |-> 0]

\* ---------------------------------------------------------------- token codec

\* bcrypt.hash(password, salt): one-way, so the stored value is not the plaintext
hashPassword(password) == <<"bcrypt", password>>

\* bcrypt.compare(password, hash)
comparePassword(password, hash) == hash = <<"bcrypt", password>>

\* faulty variant of the payload: the claims of no user
Payload_blank(user) == [userId |-> 0, email |-> "", role |-> ""]

\* JWTPayload of a user row
Payload(user) == [userId |-> user.id, email |-> user.email, role |-> user.role]

\* jwt.sign(payload, config.jwt.secret, {expiresIn}): exp = iat + expiresIn
generateAccessToken(payload, t) ==
    [userId |-> payload.userId, email |-> payload.email, role |-> payload.role,
     exp |-> t + AccessTTL, sig |-> SECRET]

\* faulty variant of verifyToken: the exp claim is not checked
verifyToken_ignoreExpiration(tok, t) ==
    IF tok.sig = SECRET
    THEN [ok |-> TRUE, user |-> tok, err |-> NoRes]
    ELSE [ok |-> FALSE, user |-> NoAccess, err |-> AppError("Invalid or expired token", 401)]

\* faulty variant of verifyToken: the owner's account is consulted as well
verifyToken_activeOwner(tok, t) ==
    IF tok.sig = SECRET /\ t < tok.exp
       /\ \E u \in users : u.id = tok.userId /\ u.isActive
    THEN [ok |-> TRUE, user |-> tok, err |-> NoRes]
    ELSE [ok |-> FALSE, user |-> NoAccess, err |-> AppError("Invalid or expired token", 401)]

\* jwt.verify(token, config.jwt.secret): the signature must match and the token
\* must not have reached exp; any failure is the one 401 of verifyToken
verifyToken(tok, t) ==
    IF tok.sig = SECRET /\ t < tok.exp
    THEN [ok |-> TRUE, user |-> tok, err |-> NoRes]
    ELSE [ok |-> FALSE, user |-> NoAccess, err |-> AppError("Invalid or expired token", 401)]

\* faulty variant of generateRefreshToken: the value of the previous call again
generateRefreshToken_repeat == IF nextToken > 1 THEN nextToken - 1 ELSE nextToken

\* crypto.randomBytes(64).toString('hex'): a value no earlier call returned
generateRefreshToken == nextToken

\* new Date() plus the configured number of days
getRefreshTokenExpiration(t) == t + RefreshTTL

\* ---------------------------------------------------------------- credential store

UserRows == users

\* faulty variant of findByEmail: the lookup finds nothing
findByEmail_miss(email) == NoUser

\* UserRepository.findByEmail: exact match on the email column
findByEmail(email) ==
    IF \E u \in UserRows : u.email = email
    THEN CHOOSE u \in UserRows : u.email = email
    ELSE NoUser

\* the unique index on users.email rejects the insert of a second row
UniqueEmailViolation(email) == \E u \in UserRows : u.email = email

\* the generated primary key: an opaque value, one per row (rows are
\* numbered by their email, which is unique)
NewId(email) == IF email = "a@x.com" THEN 1 ELSE 2

\* UserRepository.create: id generated, isActive defaults to true
createUser(email, password, role) ==
    [id |-> NewId(email), email |-> email, password |-> password,
     role |-> role, isActive |-> TRUE]

\* UserRepository.update(id, userData), for userData = {isActive} and {role}
updateUser(id, field, value) ==
    {IF u.id # id THEN u
     ELSE IF field = "isActive" THEN [u EXCEPT !.isActive = value]
     ELSE [u EXCEPT !.role = value] : u \in users}

\* ---------------------------------------------------------------- session store

\* the user row joined by relations: ['user']
UserOf(row) ==
    IF \E u \in users : u.id = row.userId
    THEN CHOOSE u \in users : u.id = row.userId
    ELSE NoUser

\* faulty variant of findByToken: the row comes back with the owner's role as
\* it was when the session was issued, not as the users table has it now
findByToken_signedRole(token) ==
    LET hit == {s \in sessions : s.token = token /\ s.isActive /\ ~s.deleted}
    IN  IF hit = {} THEN NoSnap
        ELSE LET row == CHOOSE s \in hit : TRUE
             IN  [row |-> row, user |-> [UserOf(row) EXCEPT !.role = row.signedRole]]

\* faulty variant of findByToken: the deletedAt criterion is dropped
findByToken_deleted(token) ==
    LET hit == {s \in sessions : s.token = token /\ s.isActive}
    IN  IF hit = {} THEN NoSnap
        ELSE LET row == CHOOSE s \in hit : TRUE
             IN  [row |-> row, user |-> UserOf(row)]

\* RefreshTokenRepository.findByToken: where {token, isActive: true, deletedAt: IsNull()}
findByToken(token) ==
    LET hit == {s \in sessions : s.token = token /\ s.isActive /\ ~s.deleted}
    IN  IF hit = {} THEN NoSnap
        ELSE LET row == CHOOSE s \in hit : TRUE
             IN  [row |-> row, user |-> UserOf(row)]

\* faulty variant of revokeToken: the flag of the named row is flipped
revokeToken_toggle(token) ==
    {IF s.token = token THEN [s EXCEPT !.isActive = ~s.isActive] ELSE s : s \in sessions}

\* faulty variant of revokeToken: the update is keyed on the owner of the named
\* row instead of its token
revokeToken_owner(token) ==
    {IF \E r \in sessions : r.token = token /\ r.userId = s.userId
     THEN [s EXCEPT !.isActive = FALSE] ELSE s : s \in sessions}

\* faulty variant of revokeToken: the update is lost and the row keeps its flag
revokeToken_lost(token) == sessions

\* RefreshTokenRepository.revokeToken: update({token}, {isActive: false})
revokeToken(token) ==
    {IF s.token = token THEN [s EXCEPT !.isActive = FALSE] ELSE s : s \in sessions}

\* RefreshTokenRepository.revokeToken's return value: result.affected > 0,
\* the number of rows the criterion {token} matches
revokeToken_returns(token) == Cardinality({s \in sessions : s.token = token}) > 0

\* faulty variant of revokeAllUserTokens: the flag of each of the user's rows
\* is flipped
revokeAllUserTokens_flip(userId) ==
    {IF s.userId = userId THEN [s EXCEPT !.isActive = ~s.isActive] ELSE s : s \in sessions}

\* faulty variant of revokeAllUserTokens: the userId criterion is dropped
revokeAllUserTokens_everyone(userId) ==
    {[s EXCEPT !.isActive = FALSE] : s \in sessions}

\* RefreshTokenRepository.revokeAllUserTokens: update({userId, isActive: true}, ...)
revokeAllUserTokens(userId) ==
    {IF s.userId = userId /\ s.isActive THEN [s EXCEPT !.isActive = FALSE] ELSE s :
        s \in sessions}

\* faulty variant of deleteExpiredTokens: the isActive criterion is dropped
deleteExpiredTokens_anyFlag(t) == {s \in sessions : ~(s.expiresAt < t)}

\* RefreshTokenRepository.deleteExpiredTokens: delete where expiresAt < now and
\* isActive = false
deleteExpiredTokens(t) == {s \in sessions : ~(s.expiresAt < t /\ ~s.isActive)}

\* RefreshTokenRepository.delete: softDelete({token}) sets deletedAt
softDelete(token) ==
    {IF s.token = token THEN [s EXCEPT !.deleted = TRUE] ELSE s : s \in sessions}

\* AuthService.createRefreshToken: the row saved for a new session
createRefreshToken(token, userId, expiresAt) ==
    [token |-> token, userId |-> userId, expiresAt |-> expiresAt,
     isActive |-> TRUE, deleted |-> FALSE]

\* the saved row, tagged with the role claim of the access token returned with
\* it (no column of the table: it tells which bearer tokens clients hold)
Issued(row, acc) ==
    [token |-> row.token, userId |-> row.userId, expiresAt |-> row.expiresAt,
     isActive |-> row.isActive, deleted |-> row.deleted, signedRole |-> acc.role]

\* faulty variant of the expiry test: the comparison is turned around
IsExpired_reversed(expiresAt, t) == t < expiresAt

\* the expiry test of verifyRefreshToken: refreshToken.expiresAt < new Date()
IsExpired(expiresAt, t) == expiresAt < t

\* ---------------------------------------------------------------- middleware

\* body('refreshToken').notEmpty() and validateRequest
validateRequest(token) ==
    IF token = MissingToken
    THEN AppError("Validation failed: Refresh token is required", 400)
    ELSE NoRes

\* faulty variant of authenticate: the bearer token is decoded without
\* verifying its signature
authenticate_unverified(hdr, t) ==
    IF hdr.kind # "bearer"
    THEN [ok |-> FALSE, user |-> NoAccess, err |-> AppError("No token provided", 401)]
    ELSE IF t < hdr.tok.exp
    THEN [ok |-> TRUE, user |-> hdr.tok, err |-> NoRes]
    ELSE [ok |-> FALSE, user |-> NoAccess, err |-> AppError("Invalid or expired token", 401)]

\* authenticate: header present and starting with "Bearer ", then verifyToken
authenticate(hdr, t) ==
    IF hdr.kind # "bearer"
    THEN [ok |-> FALSE, user |-> NoAccess, err |-> AppError("No token provided", 401)]
    ELSE verifyToken(hdr.tok, t)

\* faulty variant of authorize: any authenticated request passes
authorize_anyRole(roles, reqUser) ==
    IF reqUser = NoAccess THEN AppError("Authentication required", 401) ELSE NoRes

\* authorize(...roles) after authenticate
authorize(roles, reqUser) ==
    IF reqUser = NoAccess THEN AppError("Authentication required", 401)
    ELSE IF reqUser.role \notin roles
    THEN AppError("You do not have permission to access this resource", 403)
    ELSE NoRes

\* the access tokens clients were handed with the sessions on record: login
\* and register sign the owner's claims in the step that fixes the session's
\* expiry
Handed ==
    {generateAccessToken([userId |-> s.userId, email |-> UserOf(s).email,
                          role |-> s.signedRole], s.expiresAt - RefreshTTL) :
        s \in sessions}

\* a token signed with another key: admin claims that never expire here
Forged == [userId |-> 1, email |-> "a@x.com", role |-> "admin",
           exp |-> MaxTime + 1, sig |-> "forged"]

\* the authorization headers a client can send: none, a non-bearer scheme, a
\* bearer token it was handed, or one signed with another key
Headers ==
    {NoHeader, [kind |-> "basic", tok |-> NoAccess], [kind |-> "bearer", tok |-> Forged]}
    \cup {[kind |-> "bearer", tok |-> a] : a \in Handed}

\* the refresh token values a client can send: the ones responses returned, and
\* one that was never generated
KnownTokens == (0..(nextToken - 1)) \ {r.token : r \in {q \in BagToSet(proc) : q.pc = "session"}}

\* ---------------------------------------------------------------- handlers

\* a connection is free to take a request
Free == BagCardinality(proc) < Cardinality(Procs)

InFlight == BagToSet(proc)

\* handlers that will still insert a user and generate a refresh token
CreatesPending == BagCardinality([r \in {q \in InFlight : q.pc = "create"} |-> proc[r]])

Success(status, acc, token) ==
    [status |-> status, message |-> "success", token |-> acc, refreshToken |-> token]

\* a request arrives and its handler reaches its first await as rec
Start(rec) == proc' = proc (+) SetToBag({rec}) /\ last' = NoLast

\* the handler h goes on to its next await as rec
Goto(h, rec) == proc' = (proc (-) SetToBag({h})) (+) SetToBag({rec}) /\ last' = NoLast

\* the handler h answers
Respond(h, reply) == proc' = proc (-) SetToBag({h}) /\ last' = reply

\* a handler answers before its first await
Answer(reply) == proc' = proc /\ last' = reply

\* the response of the handler rec, answered at its step rec.pc
Reply(rec, res) ==
    [NoLast EXCEPT !.op = rec.op, !.pc = rec.pc, !.email = rec.email,
                   !.password = rec.password, !.token = rec.token,
                   !.seen = rec.seen, !.afterLogout = rec.afterLogout, !.res = res,
                   !.writes = rec.writes]

Init ==
    /\ users = {}
    /\ sessions = {}
    /\ now = 0
    /\ nextToken = 1
    /\ revoked = {}
    /\ proc = EmptyBag
    /\ last = NoLast

\* the user row carrying the email when a request arrives (what the users
\* table holds at that moment)
Registered(email) ==
    LET rows == {u \in users : u.email = email}
    IN  IF rows = {} THEN NoUser ELSE CHOOSE u \in rows : TRUE

\* POST /register, AuthService.register up to the findByEmail check
RegisterFind(raw, password, role) ==
    /\ Free
    /\ LET email == NormalizeEmail(raw)
           existingUser == findByEmail(email)
           rec == [IdleProc EXCEPT !.op = "register", !.pc = "find", !.email = email,
                                   !.password = password, !.role = role,
                                   !.seen = [NoSnap EXCEPT !.user = Registered(email)]]
       IN  IF existingUser # NoUser
           THEN Answer(Reply(rec, AppError("User with this email already exists", 409)))
           ELSE /\ nextToken + CreatesPending <= MaxTokens
                /\ Start([rec EXCEPT !.pc = "create"])
    /\ UNCHANGED <<users, sessions, now, nextToken, revoked>>

\* AuthService.register: userRepository.create, then the access token and the
\* refresh token value and expiry are computed before the session row is saved
RegisterCreate(h) ==
    /\ h \in InFlight /\ h.op = "register" /\ h.pc = "create"
    /\ IF UniqueEmailViolation(h.email)
       THEN /\ Respond(h, Reply([h EXCEPT !.writes = h.writes + 1],
                                 InternalError("duplicate key value violates unique constraint")))
            /\ UNCHANGED <<users, nextToken>>
       ELSE LET user == createUser(h.email, hashPassword(h.password),
                                   IF h.role = "" THEN "user" ELSE h.role)
            IN  /\ users' = users \cup {user}
                /\ nextToken' = nextToken + 1
                /\ Goto(h, [h EXCEPT !.pc = "session", !.user = user,
                                !.writes = h.writes + 1,
                                !.acc = generateAccessToken(Payload(user), now),
                                !.token = generateRefreshToken,
                                !.exp = getRefreshTokenExpiration(now)])
    /\ UNCHANGED <<sessions, now, revoked>>

\* AuthService.register: refreshTokenRepository.create, then the 201 response
RegisterSession(h) ==
    /\ h \in InFlight /\ h.op = "register" /\ h.pc = "session"
    /\ sessions' = sessions \cup
           {Issued(createRefreshToken(h.token, h.user.id, h.exp), h.acc)}
    /\ Respond(h, Reply([h EXCEPT !.writes = h.writes + 1], Success(201, h.acc, h.token)))
    /\ UNCHANGED <<users, now, nextToken, revoked>>

\* faulty variant of LoginFind: the account's isActive flag is not consulted
LoginFind_anyAccount(raw, password) ==
    /\ Free
    /\ LET email == NormalizeEmail(raw)
           user == findByEmail(email)
           rec == [IdleProc EXCEPT !.op = "login", !.pc = "find", !.email = email,
                                   !.password = password,
                                   !.seen = [NoSnap EXCEPT !.user = Registered(email)]]
       IN  IF user = NoUser \/ ~comparePassword(password, user.password)
           THEN /\ Answer(Reply(rec, AppError("Invalid email or password", 401)))
                /\ UNCHANGED nextToken
           ELSE /\ nextToken + CreatesPending <= MaxTokens
                /\ nextToken' = nextToken + 1
                /\ Start([rec EXCEPT !.pc = "session", !.user = user,
                                !.acc = generateAccessToken(Payload(user), now),
                                !.token = generateRefreshToken,
                                !.exp = getRefreshTokenExpiration(now)])
    /\ UNCHANGED <<users, sessions, now, revoked>>

\* POST /login, AuthService.login up to the token generation
LoginFind(raw, password) ==
    /\ Free
    /\ LET email == NormalizeEmail(raw)
           user == findByEmail(email)
           rec == [IdleProc EXCEPT !.op = "login", !.pc = "find", !.email = email,
                                   !.password = password,
                                   !.seen = [NoSnap EXCEPT !.user = Registered(email)]]
       IN  IF user = NoUser
           THEN /\ Answer(Reply(rec, AppError("Invalid email or password", 401)))
                /\ UNCHANGED nextToken
           ELSE IF ~user.isActive
           THEN /\ Answer(Reply(rec, AppError("Account is deactivated", 403)))
                /\ UNCHANGED nextToken
           ELSE IF ~comparePassword(password, user.password)
           THEN /\ Answer(Reply(rec, AppError("Invalid email or password", 401)))
                /\ UNCHANGED nextToken
           ELSE /\ nextToken + CreatesPending <= MaxTokens
                /\ nextToken' = nextToken + 1
                /\ Start([rec EXCEPT !.pc = "session", !.user = user,
                                !.acc = generateAccessToken(Payload(user), now),
                                !.token = generateRefreshToken,
                                !.exp = getRefreshTokenExpiration(now)])
    /\ UNCHANGED <<users, sessions, now, revoked>>

\* AuthService.login: refreshTokenRepository.create, then the 200 response
LoginSession(h) ==
    /\ h \in InFlight /\ h.op = "login" /\ h.pc = "session"
    /\ sessions' = sessions \cup
           {Issued(createRefreshToken(h.token, h.user.id, h.exp), h.acc)}
    /\ Respond(h, Reply([h EXCEPT !.writes = h.writes + 1], Success(200, h.acc, h.token)))
    /\ UNCHANGED <<users, now, nextToken, revoked>>

\* the stored row of a token whatever its flags, with its owner (what the
\* store holds at the moment of the lookup)
Stored(token) ==
    LET rows == {s \in sessions : s.token = token}
    IN  IF rows = {} THEN NoSnap
        ELSE LET row == CHOOSE s \in rows : TRUE
             IN  [row |-> row, user |-> UserOf(row)]

\* POST /refresh, verifyRefreshToken: refreshTokenRepository.findByToken
RefreshFind(token) ==
    /\ Free
    /\ LET refreshToken == findByToken(token)
           rec == [IdleProc EXCEPT !.op = "refresh", !.pc = "find", !.token = token,
                                   !.snap = refreshToken, !.seen = Stored(token),
                                   !.afterLogout = (token \in revoked)]
       IN  IF refreshToken = NoSnap
           THEN Answer(Reply(rec, AppError("Invalid refresh token", 401)))
           ELSE Start([rec EXCEPT !.pc = "check"])
    /\ UNCHANGED <<users, sessions, now, nextToken, revoked>>

\* faulty variant of RefreshCheck: the row is read again before the answer, and
\* a row deactivated since the lookup is refused
RefreshCheck_rereads(h) ==
    /\ h \in InFlight /\ h.op = "refresh" /\ h.pc = "check"
    /\ LET refreshToken == h.snap.row
           user == h.snap.user
           accessToken == generateAccessToken(Payload(user), now)
       IN  IF IsExpired(refreshToken.expiresAt, now)
           THEN Goto(h, [h EXCEPT !.pc = "revoke"])
           ELSE IF findByToken(h.token) = NoSnap
           THEN Respond(h, Reply(h, AppError("Refresh token has been revoked", 401)))
           ELSE IF user = NoUser \/ ~user.isActive
           THEN Respond(h, Reply(h, AppError("User account is deactivated", 403)))
           ELSE Respond(h, Reply(h, Success(200, accessToken, h.token)))
    /\ UNCHANGED <<users, sessions, now, nextToken, revoked>>

\* faulty variant of RefreshCheck: the owner's isActive flag is not consulted
RefreshCheck_anyOwner(h) ==
    /\ h \in InFlight /\ h.op = "refresh" /\ h.pc = "check"
    /\ LET refreshToken == h.snap.row
           user == h.snap.user
           accessToken == generateAccessToken(Payload(user), now)
       IN  IF IsExpired(refreshToken.expiresAt, now)
           THEN Goto(h, [h EXCEPT !.pc = "revoke"])
           ELSE IF ~refreshToken.isActive
           THEN Respond(h, Reply(h, AppError("Refresh token has been revoked", 401)))
           ELSE Respond(h, Reply(h, Success(200, accessToken, h.token)))
    /\ UNCHANGED <<users, sessions, now, nextToken, revoked>>

\* faulty variant of RefreshCheck: the presented refresh token is spent by the
\* refresh that succeeds with it
RefreshCheck_singleUse(h) ==
    /\ h \in InFlight /\ h.op = "refresh" /\ h.pc = "check"
    /\ LET refreshToken == h.snap.row
           user == h.snap.user
           accessToken == generateAccessToken(Payload(user), now)
       IN  IF IsExpired(refreshToken.expiresAt, now)
           THEN Goto(h, [h EXCEPT !.pc = "revoke"]) /\ UNCHANGED sessions
           ELSE IF ~refreshToken.isActive
           THEN /\ Respond(h, Reply(h, AppError("Refresh token has been revoked", 401)))
                /\ UNCHANGED sessions
           ELSE IF user = NoUser \/ ~user.isActive
           THEN /\ Respond(h, Reply(h, AppError("User account is deactivated", 403)))
                /\ UNCHANGED sessions
           ELSE /\ Respond(h, Reply(h, Success(200, accessToken, h.token)))
                /\ sessions' = revokeToken(h.token)
    /\ UNCHANGED <<users, now, nextToken, revoked>>

\* verifyRefreshToken after the lookup, and refreshToken's response
RefreshCheck(h) ==
    /\ h \in InFlight /\ h.op = "refresh" /\ h.pc = "check"
    /\ LET refreshToken == h.snap.row
           user == h.snap.user
           accessToken == generateAccessToken(Payload(user), now)
       IN  IF IsExpired(refreshToken.expiresAt, now)
           THEN Goto(h, [h EXCEPT !.pc = "revoke"])
           ELSE IF ~refreshToken.isActive
           THEN Respond(h, Reply(h, AppError("Refresh token has been revoked", 401)))
           ELSE IF user = NoUser \/ ~user.isActive
           THEN Respond(h, Reply(h, AppError("User account is deactivated", 403)))
           ELSE Respond(h, Reply(h, Success(200, accessToken, h.token)))
    /\ UNCHANGED <<users, sessions, now, nextToken, revoked>>

\* verifyRefreshToken on an expired row: revokeToken, then the 401
RefreshRevoke(h) ==
    /\ h \in InFlight /\ h.op = "refresh" /\ h.pc = "revoke"
    /\ sessions' = revokeToken(h.token)
    /\ Respond(h, Reply([h EXCEPT !.writes = h.writes + 1],
                         AppError("Refresh token expired", 401)))
    /\ UNCHANGED <<users, now, nextToken, revoked>>

\* the response of a route behind authenticate, with the header of the request
\* and the refresh token its handler read from the body (none when the
\* middleware answered)
Guarded(op, hdr, auth, token, res) ==
    [NoLast EXCEPT !.op = op, !.pc = "route", !.token = token, !.hdr = hdr,
                   !.reqUser = auth.user, !.res = res]

\* faulty variant of Logout: only a row owned by the authenticated identity is
\* deactivated
Logout_ownerOnly(hdr, token) ==
    /\ LET invalid == validateRequest(token)
           auth == authenticate(hdr, now)
       IN  IF invalid # NoRes
           THEN /\ last' = [NoLast EXCEPT !.op = "logout", !.pc = "validate",
                                          !.token = token, !.hdr = hdr, !.res = invalid]
                /\ UNCHANGED <<sessions, revoked>>
           ELSE IF ~auth.ok
           THEN /\ last' = Guarded("logout", hdr, auth, UnknownToken, auth.err)
                /\ UNCHANGED <<sessions, revoked>>
           ELSE /\ sessions' = {IF s.token = token /\ s.userId = auth.user.userId
                                THEN [s EXCEPT !.isActive = FALSE] ELSE s : s \in sessions}
                /\ revoked' = revoked \cup ({token} \ {UnknownToken})
                /\ last' = [Guarded("logout", hdr, auth, token,
                                [NoRes EXCEPT !.status = 200,
                                              !.message = "Logged out successfully"])
                            EXCEPT !.afterLogout = (token \in revoked), !.writes = 1]
    /\ UNCHANGED <<users, now, nextToken, proc>>

\* faulty variant of Logout: the route is mounted without authenticate
Logout_unguarded(hdr, token) ==
    /\ LET invalid == validateRequest(token)
           auth == authenticate(hdr, now)
       IN  IF invalid # NoRes
           THEN /\ last' = [NoLast EXCEPT !.op = "logout", !.pc = "validate",
                                          !.token = token, !.hdr = hdr, !.res = invalid]
                /\ UNCHANGED <<sessions, revoked>>
           ELSE /\ sessions' = revokeToken(token)
                /\ revoked' = revoked \cup ({token} \ {UnknownToken})
                /\ last' = [Guarded("logout", hdr, auth, token,
                                [NoRes EXCEPT !.status = 200,
                                              !.message = "Logged out successfully"])
                            EXCEPT !.afterLogout = (token \in revoked), !.writes = 1]
    /\ UNCHANGED <<users, now, nextToken, proc>>

\* POST /logout: validateRequest, authenticate, then
\* revokeRefreshToken(body.refreshToken)
Logout(hdr, token) ==
    /\ LET invalid == validateRequest(token)
           auth == authenticate(hdr, now)
       IN  IF invalid # NoRes
           THEN /\ last' = [NoLast EXCEPT !.op = "logout", !.pc = "validate",
                                          !.token = token, !.hdr = hdr, !.res = invalid]
                /\ UNCHANGED <<sessions, revoked>>
           ELSE IF ~auth.ok
           THEN /\ last' = Guarded("logout", hdr, auth, UnknownToken, auth.err)
                /\ UNCHANGED <<sessions, revoked>>
           ELSE /\ sessions' = revokeToken(token)
                /\ revoked' = revoked \cup ({token} \ {UnknownToken})
                /\ last' = [Guarded("logout", hdr, auth, token,
                                [NoRes EXCEPT !.status = 200,
                                              !.message = "Logged out successfully"])
                            EXCEPT !.afterLogout = (token \in revoked), !.writes = 1]
    /\ UNCHANGED <<users, now, nextToken, proc>>

\* POST /logout-all: authenticate, then revokeAllUserTokens(req.user.userId)
LogoutAll(hdr) ==
    /\ LET auth == authenticate(hdr, now)
       IN  IF ~auth.ok
           THEN /\ last' = Guarded("logoutAll", hdr, auth, UnknownToken, auth.err)
                /\ UNCHANGED <<sessions, revoked>>
           ELSE /\ sessions' = revokeAllUserTokens(auth.user.userId)
                /\ revoked' = revoked \cup
                       {s.token : s \in {r \in sessions : r.userId = auth.user.userId}}
                /\ last' = [Guarded("logoutAll", hdr, auth, UnknownToken,
                                [NoRes EXCEPT !.status = 200,
                                   !.message = "Logged out from all devices successfully"])
                            EXCEPT !.writes = 1]
    /\ UNCHANGED <<users, now, nextToken, proc>>

\* GET /admin: requireAuth([UserRole.ADMIN]), then the handler
Admin(hdr) ==
    /\ LET auth == authenticate(hdr, now)
           denied == authorize({"admin"}, auth.user)
       IN  last' = Guarded("admin", hdr, auth, UnknownToken,
                       IF ~auth.ok THEN auth.err
                       ELSE IF denied # NoRes THEN denied
                       ELSE [NoRes EXCEPT !.status = 200,
                                          !.message = "Welcome to admin area"])
    /\ UNCHANGED <<users, sessions, now, nextToken, revoked, proc>>

\* ---------------------------------------------------------------- store maintenance

\* RefreshTokenRepository.deleteExpiredTokens (the cleanup job)
Purge ==
    /\ sessions' = deleteExpiredTokens(now)
    /\ sessions' # sessions
    /\ last' = NoLast
    /\ UNCHANGED <<users, now, nextToken, revoked, proc>>

\* RefreshTokenRepository.delete(token)
SoftDelete(token) ==
    /\ sessions' = softDelete(token)
    /\ sessions' # sessions
    /\ last' = NoLast
    /\ UNCHANGED <<users, now, nextToken, revoked, proc>>

\* UserRepository.update(id, {isActive})
SetUserActive(id, isActive) ==
    /\ users' = updateUser(id, "isActive", isActive)
    /\ users' # users
    /\ last' = NoLast
    /\ UNCHANGED <<sessions, now, nextToken, revoked, proc>>

\* UserRepository.update(id, {role})
SetUserRole(id, role) ==
    /\ users' = updateUser(id, "role", role)
    /\ users' # users
    /\ last' = NoLast
    /\ UNCHANGED <<sessions, now, nextToken, revoked, proc>>

\* the clock
Tick ==
    /\ now < MaxTime
    /\ now' = now + 1
    /\ last' = NoLast
    /\ UNCHANGED <<users, sessions, nextToken, revoked, proc>>

\* a request to register, login or refresh arrives and runs to its first await
Arrivals(emails, roles) ==
    \/ \E raw \in emails, password \in NewPasswords, role \in roles :
           RegisterFind(raw, password, role)
    \/ \E raw \in RawEmails, password \in Passwords : LoginFind(raw, password)
    \/ \E token \in KnownTokens : RefreshFind(token)

\* a handler in flight takes its next step
Continue ==
    \/ \E h \in InFlight : RegisterCreate(h)
    \/ \E h \in InFlight : RegisterSession(h)
    \/ \E h \in InFlight : LoginSession(h)
    \/ \E h \in InFlight : RefreshCheck(h)
    \/ \E h \in InFlight : RefreshRevoke(h)

\* the routes behind authenticate that take no role
Logouts ==
    \/ \E hdr \in Headers, token \in KnownTokens : Logout(hdr, token)
    \/ \E hdr \in Headers : LogoutAll(hdr)

Maintenance ==
    \/ Purge
    \/ \E u \in users, isActive \in BOOLEAN : SetUserActive(u.id, isActive)
    \/ Tick

\* the session core: every account registers with the default role
Next ==
    \/ Arrivals(RawEmails, {""})
    \/ Continue
    \/ Logouts
    \/ Maintenance

Spec == Init /\ [][Next]_vars

\* one account, and session rows that are soft-deleted
NextSoft ==
    \/ Arrivals({"a@x.com", "A@x.com"}, {""})
    \/ Continue
    \/ Logouts
    \/ Maintenance
    \/ \E token \in KnownTokens : SoftDelete(token)

SpecSoft == Init /\ [][NextSoft]_vars

\* one account, registered with or without a role, role updates, the admin
\* route and logouts with and without a refreshToken in the body, with the
\* register, login and refresh requests served one at a time
NextRoles ==
    \/ proc = EmptyBag /\ Arrivals({"a@x.com", "A@x.com"}, RoleInputs)
    \/ Continue
    \/ \E hdr \in Headers, token \in KnownTokens \cup {MissingToken} : Logout(hdr, token)
    \/ \E hdr \in Headers : LogoutAll(hdr)
    \/ \E hdr \in Headers : Admin(hdr)
    \/ \E u \in users, role \in {"user", "admin"} : SetUserRole(u.id, role)
    \/ \E u \in users, isActive \in BOOLEAN : SetUserActive(u.id, isActive)
    \/ Tick

SpecRoles == Init /\ [][NextRoles]_vars

\* one account whose requests are always served to the end, with the clock
\* running; deleteExpiredTokens can be called, but nothing in the server calls
\* it (README: "Use the deleteExpiredTokens() method in a cron job"), so no
\* fairness is stated for it
NextLive ==
    \/ Arrivals({"a@x.com"}, {""})
    \/ Continue
    \/ Logouts
    \/ Purge
    \/ Tick

SpecLive == Init /\ [][NextLive]_vars /\ WF_vars(Continue) /\ WF_vars(Tick)

\* ---------------------------------------------------------------- properties

\* the responses of POST /refresh
RefreshAnswered == last.op = "refresh"

\* the session rows carrying the token
RowsOf(token) == {s \in sessions : s.token = token}

\* C1: once a logout naming a refresh token has completed, every refresh with
\* that token that starts afterwards is answered 401 and carries no access
\* token, whatever happened in between (logins, refreshes, other logouts,
\* logout-all, clock ticks, the cleanup job).
C1_RefreshAfterLogoutFails ==
    (RefreshAnswered /\ last.afterLogout) =>
        /\ last.res.status = 401
        /\ last.res.token = NoAccess

\* C1 happens: a refresh is answered for a token that was logged out while its
\* row is still on record and not yet expired
C1_Witness ==
    /\ RefreshAnswered /\ last.afterLogout
    /\ last.seen # NoSnap
    /\ now <= last.seen.row.expiresAt
    /\ last.seen.user.isActive

\* the effect of a completed logout-all by the identity A on the session store
LogoutAllEffect(A) ==
    /\ \A s \in sessions :
          IF s.userId = A /\ s.isActive
          THEN /\ [s EXCEPT !.isActive = FALSE] \in sessions'
               /\ s \notin sessions'
          ELSE s \in sessions'
    /\ \A t \in sessions' :
          \/ t \in sessions
          \/ \E s \in sessions :
                s.userId = A /\ s.isActive /\ t = [s EXCEPT !.isActive = FALSE]

\* C2: when logout-all completes for identity A, every session of A that was
\* active is inactive (a refresh with it finds no active row), and every
\* session of another identity, like every session already inactive, is
\* exactly as before.
C2_LogoutAllFrame ==
    [][(last'.op = "logoutAll" /\ last'.res.status = 200) =>
          /\ LogoutAllEffect(last'.reqUser.userId)
          /\ \A s \in sessions' :
                s.userId = last'.reqUser.userId => findByToken(s.token)' = NoSnap]_vars

\* C2 happens: logout-all has answered 200 for an identity that has a session
\* on record, while another identity has a session that a refresh still finds
C2_Witness ==
    /\ last.op = "logoutAll" /\ last.res.status = 200
    /\ \E s \in sessions : s.userId = last.reqUser.userId /\ ~s.isActive
    /\ \E s \in sessions : s.userId # last.reqUser.userId /\ findByToken(s.token) # NoSnap

\* the row a refresh looked up was stored and flagged active, not soft-deleted
Live(snap) == snap # NoSnap /\ snap.row.isActive /\ ~snap.row.deleted

\* C3 (as the code has it): a refresh is answered with an access token only if
\* the session it looked up was active and not soft-deleted and the clock has
\* not passed expiresAt when it answers (now <= expiresAt: at now = expiresAt
\* the token is still honoured); if one of the three fails the answer is 401
\* and carries no access token.
C3_RefreshOnlyIfUsable ==
    RefreshAnswered =>
        /\ last.res.status = 200 =>
              Live(last.seen) /\ now <= last.seen.row.expiresAt
        /\ ~(Live(last.seen) /\ now <= last.seen.row.expiresAt) =>
              last.res.status = 401 /\ last.res.token = NoAccess

\* C3 as stated: the same with now < expiresAt, so that a refresh at
\* now = expiresAt fails
C3_AsStated ==
    RefreshAnswered =>
        /\ last.res.status = 200 =>
              Live(last.seen) /\ now < last.seen.row.expiresAt
        /\ ~(Live(last.seen) /\ now < last.seen.row.expiresAt) =>
              last.res.status = 401 /\ last.res.token = NoAccess

\* C3 happens at its boundary: a refresh answered 200 at now = expiresAt
C3_Witness ==
    /\ RefreshAnswered /\ last.res.status = 200
    /\ now = last.seen.row.expiresAt

\* C4 (as the code has it): a refresh with a token whose row is on record, not
\* an active soft-deleted one, and past its expiry (expiresAt < now) is
\* answered 401 and leaves no row of that token flagged active; this covers
\* the first call, which finds the row active, and every repetition, which
\* finds it inactive.
C4_ExpiredRefreshDeactivates ==
    (/\ RefreshAnswered
     /\ last.seen # NoSnap
     /\ ~(last.seen.row.isActive /\ last.seen.row.deleted)
     /\ last.seen.row.expiresAt < now) =>
        /\ last.res.status = 401
        /\ \A s \in RowsOf(last.token) : ~s.isActive

\* C4 as stated: every row stored as active and past its expiry, soft-deleted
\* or not
C4_AsStated ==
    (/\ RefreshAnswered
     /\ last.seen # NoSnap
     /\ last.seen.row.expiresAt < now) =>
        /\ last.res.status = 401
        /\ \A s \in RowsOf(last.token) : ~s.isActive

\* C4 happens: a refresh found the row active and expired, revoked it and
\* answered "Refresh token expired"
C4_Witness ==
    /\ RefreshAnswered /\ last.pc = "revoke"
    /\ Live(last.seen)
    /\ last.res = AppError("Refresh token expired", 401)
    /\ RowsOf(last.token) # {}

\* the responses of POST /login
LoginAnswered == last.op = "login"

\* what login answers for an email that is not registered
UnknownEmailAnswer == AppError("Invalid email or password", 401)

\* C5 as stated: a login with a registered email, whatever the state of its
\* account, and a password that does not match the stored hash is answered
\* exactly as a login with an email that is not registered.
C5_AsStated ==
    (/\ LoginAnswered
     /\ \E u \in users :
           u.email = last.email /\ ~comparePassword(last.password, u.password)) =>
        last.res = UnknownEmailAnswer

\* C5's case: a wrong password for a registered, deactivated account gets an
\* answer that an unregistered email never gets
C5_Witness ==
    /\ LoginAnswered
    /\ \E u \in users :
          /\ u.email = last.email /\ ~u.isActive
          /\ ~comparePassword(last.password, u.password)
    /\ last.res = AppError("Account is deactivated", 403)

\* C6: the step in which a login succeeds adds exactly one row to the session
\* store: owned by the identity that logged in, active, carrying the refresh
\* token of the response, which no row already on record carries; every row
\* already on record is kept as it is, and no user row changes.
C6_LoginAddsOneSession ==
    [][(last'.op = "login" /\ last'.res.status = 200) =>
          /\ sessions \subseteq sessions'
          /\ Cardinality(sessions' \ sessions) = 1
          /\ \A row \in sessions' \ sessions :
                /\ row.token = last'.res.refreshToken
                /\ row.userId = last'.res.token.userId
                /\ \E u \in users : u.email = last'.email /\ u.id = row.userId
                /\ row.isActive /\ ~row.deleted
                /\ \A s \in sessions : s.token # row.token
          /\ users' = users]_vars

\* C6 happens: a login has succeeded for an identity that now holds two
\* sessions a refresh finds
C6_Witness ==
    /\ LoginAnswered /\ last.res.status = 200
    /\ \E s1, s2 \in sessions :
          /\ s1.token # s2.token
          /\ s1.userId = last.res.token.userId /\ s2.userId = last.res.token.userId
          /\ findByToken(s1.token) # NoSnap /\ findByToken(s2.token) # NoSnap

\* the claims of an access token are those of the user row
ClaimsOf(acc, user) ==
    acc.userId = user.id /\ acc.email = user.email /\ acc.role = user.role

\* C7 (as the code has it): a refresh with a token that a login or a register
\* returned, whose row is not soft-deleted, with no logout or logout-all of it
\* completed before the refresh starts, with its owner active, and answered
\* while now <= expiresAt, is answered 200 with the same refresh token and an
\* access token carrying the owner's id, email and role.
C7_RefreshAfterLogin ==
    (/\ RefreshAnswered
     /\ last.seen # NoSnap
     /\ ~last.seen.row.deleted
     /\ ~last.afterLogout
     /\ last.seen.user.isActive
     /\ now <= last.seen.row.expiresAt) =>
        /\ last.res.status = 200
        /\ last.res.refreshToken = last.token
        /\ last.res.token.sig = SECRET
        /\ ClaimsOf(last.res.token, last.seen.user)

\* C7 as stated: whether or not the row was soft-deleted in between
C7_AsStated ==
    (/\ RefreshAnswered
     /\ last.seen # NoSnap
     /\ ~last.afterLogout
     /\ last.seen.user.isActive
     /\ now < last.seen.row.expiresAt) =>
        /\ last.res.status = 200
        /\ ClaimsOf(last.res.token, last.seen.user)

\* C7 happens: a refresh of a session nobody logged out is answered 200
C7_Witness ==
    /\ RefreshAnswered /\ last.res.status = 200
    /\ ~last.afterLogout
    /\ last.seen.user.isActive

C9_AsStated ==
    /\ (last.op = "register" /\ last.res.status # 201) =>
           last.res = AppError("User with this email already exists", 409)
    /\ \A u1, u2 \in users : u1.email = u2.email => u1 = u2

\* C9's case: a register passed the findByEmail check, lost the race to the
\* insert and was answered 500
C9_Witness ==
    /\ last.op = "register" /\ last.pc = "create"
    /\ last.res.status = 500
    /\ \E u \in users : u.email = last.email

\* the header carries a bearer token with the right signature that has not
\* reached exp
SignedAndFresh(hdr) ==
    hdr.kind = "bearer" /\ hdr.tok.sig = SECRET /\ now < hdr.tok.exp

\* C10: a request to a route behind authenticate that presents a bearer token
\* passes the middleware exactly if the token is correctly signed and has not
\* reached exp, whatever the users table and the session store hold.
C10_AcceptanceBySignatureAndExpiry ==
    (last.op \in {"logout", "logoutAll"} /\ last.hdr.kind = "bearer") =>
        /\ (last.res.status = 200) = SignedAndFresh(last.hdr)
        /\ SignedAndFresh(last.hdr) => last.reqUser = last.hdr.tok
        /\ ~SignedAndFresh(last.hdr) => last.res.status = 401

\* C10 happens: a request was accepted although the owner of its access token
\* is deactivated and every session of the owner was already deactivated (the
\* accepted logout named no stored token, so it changed nothing)
C10_Witness ==
    /\ last.op = "logout" /\ last.res.status = 200
    /\ last.token = UnknownToken
    /\ \E u \in users : u.id = last.reqUser.userId /\ ~u.isActive
    /\ \E s \in sessions : s.userId = last.reqUser.userId
    /\ \A s \in sessions : s.userId = last.reqUser.userId => (~s.isActive /\ s.token \in revoked)

\* C11: the access token of a successful refresh carries the email and the
\* role that the owner's user row held when the refresh looked the session up,
\* whatever role the access token issued with the session carried.
C11_RefreshSignsStoredClaims ==
    (RefreshAnswered /\ last.res.status = 200) =>
        /\ last.res.token.email = last.seen.user.email
        /\ last.res.token.role = last.seen.user.role
        /\ last.res.token.userId = last.seen.row.userId

\* C11 happens: the role was changed between the login and the refresh, and
\* the refresh signed the new role
C11_Witness ==
    /\ RefreshAnswered /\ last.res.status = 200
    /\ last.seen.row.signedRole # last.seen.user.role
    /\ last.res.token.role = last.seen.user.role

\* C12: the step in which a refresh is answered 200 returns the refresh token
\* that was presented and writes nothing: the session store and the users
\* table are as before, so the lookup that found the token before the answer
\* finds it after (until the expiry passes or a logout deactivates it).
C12_RefreshKeepsToken ==
    [][(last'.op = "refresh" /\ last'.res.status = 200) =>
          /\ last'.res.refreshToken = last'.token
          /\ sessions' = sessions
          /\ users' = users
          /\ nextToken' = nextToken
          /\ \A s \in sessions :
                (s.token = last'.token /\ findByToken(s.token) # NoSnap)
                    => findByToken(s.token)' # NoSnap]_vars

\* C12 happens: after a refresh answered 200 the same token is still found by
\* the lookup and has not expired
C12_Witness ==
    /\ RefreshAnswered /\ last.res.status = 200
    /\ last.res.refreshToken = last.token
    /\ findByToken(last.token) # NoSnap
    /\ ~IsExpired(findByToken(last.token).row.expiresAt, now)

\* C13 as stated: a refresh with a token whose row is on record but already
\* deactivated is answered 401 with the message reserved for revoked tokens.
C13_AsStated ==
    (RefreshAnswered /\ last.seen # NoSnap /\ ~last.seen.row.isActive) =>
        last.res = AppError("Refresh token has been revoked", 401)

\* C13's case: a refresh with the token of a deactivated row gets the answer
\* that a token matching no row gets
C13_Witness ==
    /\ RefreshAnswered
    /\ last.seen # NoSnap /\ ~last.seen.row.isActive
    /\ last.token \in revoked
    /\ last.res = AppError("Invalid refresh token", 401)

\* C14: a refresh that finds an active row that is not soft-deleted, whose
\* owner's account is inactive as the lookup reads it, and that is answered
\* while the row has not expired, is answered 403 without an access token or a
\* refresh token, and the answering step leaves the session store as it was.
C14_InactiveOwnerRefresh ==
    [][(/\ last'.op = "refresh"
        /\ Live(last'.seen)
        /\ last'.seen.user # NoUser /\ ~last'.seen.user.isActive
        /\ now' <= last'.seen.row.expiresAt) =>
          /\ last'.res = AppError("User account is deactivated", 403)
          /\ last'.res.token = NoAccess
          /\ sessions' = sessions]_vars

\* C14 happens: a refresh was refused for the owner's account, and its row is
\* still active and not expired
C14_Witness ==
    /\ RefreshAnswered /\ last.res.status = 403
    /\ ~last.seen.user.isActive
    /\ \E s \in sessions :
          s.token = last.token /\ s.isActive /\ ~s.deleted /\ now <= s.expiresAt

C16_LogoutTouchesOneSession ==
    [][(last'.op = "logout" /\ last'.res.status = 200) =>
          /\ \A s \in sessions : s.token # last'.token => s \in sessions'
          /\ \A s \in sessions' : s.token # last'.token => s \in sessions
          /\ {s.token : s \in sessions'} = {s.token : s \in sessions}
          /\ \A s \in sessions :
                (s.token # last'.token /\ findByToken(s.token) # NoSnap)
                    => findByToken(s.token)' = findByToken(s.token)
          /\ users' = users]_vars

\* C16 happens: a logout deactivated the session it named while another
\* session of the same identity is still active
C16_Witness ==
    /\ last.op = "logout" /\ last.res.status = 200
    /\ \E s \in sessions :
          s.token = last.token /\ ~s.isActive /\ s.userId = last.reqUser.userId
    /\ \E s \in sessions :
          s.token # last.token /\ s.isActive /\ s.userId = last.reqUser.userId

\* the answer of an accepted logout
LoggedOut == [NoRes EXCEPT !.status = 200, !.message = "Logged out successfully"]

\* C17: every logout that passes authenticate is answered 200, whatever its
\* token names; when the token names no row, or only rows that are already
\* inactive, the step changes nothing in the session store; and a second
\* logout of the same token from the state it leaves would change nothing.
C17_LogoutIdempotent ==
    [][(last'.op = "logout" /\ last'.reqUser # NoAccess) =>
          /\ last'.res = LoggedOut
          /\ (\A s \in sessions : s.token = last'.token => ~s.isActive)
                => sessions' = sessions
          /\ revokeToken(last.token)' = sessions'
          /\ \A s \in sessions' : s.token = last'.token => ~s.isActive]_vars

\* C17 happens: a logout of a token that an earlier logout had already
\* deactivated was answered 200
C17_Witness ==
    /\ last.op = "logout" /\ last.res = LoggedOut
    /\ last.afterLogout
    /\ \E s \in sessions : s.token = last.token /\ ~s.isActive

\* C18: a request to a route behind authenticate whose header is absent, is
\* not a bearer header, or carries a token that is wrongly signed or has
\* reached exp, is answered 401 by authenticate itself, gets no identity
\* attached, and its step changes neither the session store nor the users
\* table; an identity is attached only to a request with a correctly signed
\* token that has not reached exp, and it is the token's userId, email and role.
C18_AuthenticateRejects ==
    [][(last'.pc = "route") =>
          IF SignedAndFresh(last.hdr)'
          THEN /\ last'.reqUser.userId = last'.hdr.tok.userId
               /\ last'.reqUser.email = last'.hdr.tok.email
               /\ last'.reqUser.role = last'.hdr.tok.role
          ELSE /\ last'.reqUser = NoAccess
               /\ last'.res = IF last'.hdr.kind = "bearer"
                              THEN AppError("Invalid or expired token", 401)
                              ELSE AppError("No token provided", 401)
               /\ sessions' = sessions /\ users' = users /\ revoked' = revoked]_vars

\* C18 happens: a correctly signed access token that has reached exp was
\* turned away although its owner is active and has an active session
C18_Witness ==
    /\ last.pc = "route" /\ last.res.status = 401
    /\ last.hdr.kind = "bearer" /\ last.hdr.tok.sig = SECRET
    /\ last.reqUser = NoAccess
    /\ \E u \in users : u.id = last.hdr.tok.userId /\ u.isActive
    /\ \E s \in sessions : s.userId = last.hdr.tok.userId /\ s.isActive

\* C19: on the route behind requireAuth([admin]) the handler answers exactly
\* the requests that pass authenticate with a token whose role is admin; a
\* request that passes authenticate with another role is answered 403; a
\* request that does not pass authenticate is answered 401 by authenticate,
\* whatever role its token names.
C19_RoleCheckAfterAuthentication ==
    (last.op = "admin") =>
        /\ (last.res.status = 200) =
              (SignedAndFresh(last.hdr) /\ last.hdr.tok.role \in {"admin"})
        /\ (SignedAndFresh(last.hdr) /\ last.hdr.tok.role \notin {"admin"}) =>
              last.res = AppError("You do not have permission to access this resource", 403)
        /\ ~SignedAndFresh(last.hdr) =>
              (last.res.status = 401 /\ last.res.message # "Authentication required")

\* C19 happens: an authenticated request with the role user was answered 403
\* on the admin route
C19_Witness ==
    /\ last.op = "admin" /\ last.res.status = 403
    /\ last.reqUser # NoAccess /\ last.reqUser.role = "user"

\* the requests to POST /logout and POST /logout-all
LogoutAnswered == last.op \in {"logout", "logoutAll"}

\* C20 (as the code has it): a logout or logout-all request whose header does
\* not carry a correctly signed, unexpired access token changes no session
\* row; it is answered 401 by authenticate, except a logout whose body has no
\* refreshToken, which validateRequest answers 400 before authenticate runs,
\* with or without a valid access token. A step of these endpoints that
\* changes the session store answers a request that passed authenticate.
C20_LogoutNeedsAuthentication ==
    [][LogoutAnswered' =>
          /\ (last'.pc = "validate") = (last'.op = "logout" /\ last'.token = MissingToken)
          /\ last'.pc = "validate" =>
                /\ last'.res = AppError("Validation failed: Refresh token is required", 400)
                /\ sessions' = sessions /\ revoked' = revoked
          /\ (last'.pc = "route" /\ ~SignedAndFresh(last.hdr)') =>
                /\ last'.res.status = 401
                /\ sessions' = sessions /\ revoked' = revoked
          /\ sessions' # sessions =>
                /\ SignedAndFresh(last.hdr)'
                /\ last'.reqUser # NoAccess
                /\ last'.res.status = 200]_vars

\* C20 as stated: every logout or logout-all request without a valid access
\* token is answered 401
C20_AsStated ==
    (LogoutAnswered /\ ~SignedAndFresh(last.hdr)) => last.res.status = 401

\* C20 happens: a logout with a refreshToken in its body and a token signed
\* with another key was turned away while a session is active
C20_Witness ==
    /\ last.op = "logout" /\ last.pc = "route"
    /\ last.hdr.kind = "bearer" /\ last.hdr.tok.sig # SECRET
    /\ last.res.status = 401
    /\ \E s \in sessions : s.isActive

C22_PurgeRemovesInactiveExpired ==
    [][(\E s \in sessions : \A r \in sessions' : r.token # s.token) =>
          sessions' = {s \in sessions : s.isActive \/ now <= s.expiresAt}]_vars

\* C22 happens: the row of a token that was issued is no longer on record,
\* while an active row whose expiry has passed is still there
C22_Witness ==
    /\ \E token \in 1..(nextToken - 1) :
          /\ RowsOf(token) = {}
          /\ \A h \in InFlight : h.token # token
    /\ \E s \in sessions : s.isActive /\ s.expiresAt < now

\* C23 as stated: the revokeToken call of an accepted logout returns true
\* exactly if the call changes a row, that is if a row with the token was
\* active before it.
C23_AsStated ==
    [][(last'.op = "logout" /\ last'.res.status = 200) =>
          /\ revokeToken_returns(last'.token) = (sessions' # sessions)
          /\ revokeToken_returns(last'.token) =
                (\E s \in sessions : s.token = last'.token /\ s.isActive)]_vars

\* C23's case: a repeated logout of a token whose row is already inactive
\* has run, and revokeToken still reports an affected row for that token
C23_Witness ==
    /\ last.op = "logout" /\ last.res.status = 200
    /\ last.afterLogout
    /\ \A s \in sessions : s.token = last.token => ~s.isActive
    /\ revokeToken_returns(last.token)

C25_AsStated ==
    /\ last.writes <= 1
    /\ \A h \in InFlight : h.writes = 0

\* C25's case: a register has inserted its user row and has not yet inserted
\* the session row; the account is on record without any session
C25_Witness ==
    \E h \in InFlight :
        /\ h.op = "register" /\ h.pc = "session" /\ h.writes = 1
        /\ h.user \in users
        /\ \A s \in sessions : s.userId # h.user.id

\* C26: no step takes a session backwards: a row that is inactive stays
\* inactive as long as it is on record and the lookup never finds its token
\* again, and a token whose row was removed gets no row again.
C26_SessionStatusForward ==
    [][/\ \A s \in sessions :
             ~s.isActive =>
                 /\ \A r \in sessions' : r.token = s.token => ~r.isActive
                 /\ findByToken(s.token)' = NoSnap
       /\ \A token \in 1..(nextToken - 1) :
             (RowsOf(token) = {} /\ \A h \in InFlight : h.pc = "session" => h.token # token)
                 => \A r \in sessions' : r.token # token]_vars

\* C26 happens: the identity of a deactivated session has logged in again and
\* holds a newer active session, and a refresh with the old token is refused
C26_Witness ==
    /\ RefreshAnswered /\ last.res.status = 401
    /\ \E s \in sessions, r \in sessions :
          /\ s.token = last.token /\ ~s.isActive
          /\ r.userId = s.userId /\ r.isActive /\ r.token > s.token

\* the rows that the cleanup would delete
Purgeable == {s \in sessions : ~s.isActive /\ s.expiresAt < now}

\* C27 as stated: every row that is inactive and past its expiry is eventually
\* removed from the session store.
C27_AsStated ==
    \A token \in 1..MaxTokens :
        (\E s \in Purgeable : s.token = token) ~> (RowsOf(token) = {})

\* C27's case: an inactive row past its expiry is on record when the clock
\* has run out and no request is being served
C27_Witness ==
    /\ Purgeable # {}
    /\ now = MaxTime
    /\ proc = EmptyBag

\* C28: when a logout (or logout-all) of a token has completed by the time a
\* refresh with that token is answered, the refresh returns an access token
\* only if it looked the token up before the logout completed; a refresh that
\* looked it up before, found it active with an active owner, and is answered
\* before the expiry, is answered 200 although the logout completed in
\* between; no row with the token is active after the answer. A logout that
\* passes authenticate is answered 200 while a refresh with the same token is
\* under way, and no row with its token is active afterwards.
C28_RefreshLogoutRace ==
    /\ (RefreshAnswered /\ last.seen # NoSnap /\ last.token \in revoked) =>
          /\ last.res.status = 200 => ~last.afterLogout
          /\ (/\ ~last.afterLogout
              /\ last.seen.row.isActive /\ last.seen.user.isActive
              /\ now <= last.seen.row.expiresAt) =>
                (last.res.status = 200 /\ last.res.refreshToken = last.token)
          /\ \A s \in sessions : s.token = last.token => ~s.isActive
    /\ (last.op = "logout" /\ last.pc = "route" /\ last.reqUser # NoAccess) =>
          /\ last.res.status = 200
          /\ \A s \in sessions : s.token = last.token => ~s.isActive

\* C28 happens: a refresh looked its token up, a logout of the token completed,
\* and the refresh was then answered 200 with the row already inactive
C28_Witness ==
    /\ RefreshAnswered /\ last.res.status = 200
    /\ ~last.afterLogout /\ last.token \in revoked
    /\ \E s \in sessions : s.token = last.token /\ ~s.isActive

\* C29: an accepted logout deactivates every row that carries the token it
\* names, whoever owns the row: the identity of the access token is not
\* compared with the row's userId.
C29_LogoutIgnoresOwner ==
    [][(last'.op = "logout" /\ last'.res.status = 200) =>
          \A s \in sessions :
              s.token = last'.token =>
                  /\ [s EXCEPT !.isActive = FALSE] \in sessions'
                  /\ findByToken(s.token)' = NoSnap]_vars

\* C29 happens: a logout authenticated as one identity named the token of an
\* active session of another identity, and that session is now inactive
C29_Witness ==
    /\ last.op = "logout" /\ last.res.status = 200
    /\ ~last.afterLogout
    /\ \E s \in sessions :
          /\ s.token = last.token /\ ~s.isActive
          /\ s.userId # last.reqUser.userId
          /\ now <= s.expiresAt

\* C30: the step that answers a failing login or a failing refresh leaves the
\* users table and the session store as they were, and generates no token,
\* except the step of a refresh that found its row expired: that step sets
\* isActive to false on the rows carrying the presented token and changes
\* nothing else.
C30_FailuresLeaveStores ==
    [][(last'.op \in {"login", "refresh"} /\ last'.res.status # 200) =>
          /\ users' = users
          /\ nextToken' = nextToken
          /\ last'.res.token = NoAccess
          /\ IF last'.op = "refresh" /\ last'.res.message = "Refresh token expired"
             THEN /\ last'.seen.row.expiresAt < now'
                  /\ sessions' =
                        {IF s.token = last'.token THEN [s EXCEPT !.isActive = FALSE] ELSE s :
                            s \in sessions}
             ELSE sessions' = sessions]_vars

\* C30 happens: a refresh of an expired token was refused and its row
\* deactivated, while another session of the same owner is still active
C30_Witness ==
    /\ RefreshAnswered /\ last.res.message = "Refresh token expired"
    /\ \E s \in sessions, r \in sessions :
          /\ s.token = last.token /\ ~s.isActive
          /\ r.token # s.token /\ r.userId = s.userId /\ r.isActive

====
